---- MODULE Spec2Model ----
(***************************************************************************)
(* A model of flyctl's deploy command (internal/command/deploy/deploy.go). *)
(* One behaviour is one invocation of run: the command-line flags and the  *)
(* configuration found in the context are fixed at Init, every remote call *)
(* is a step whose outcome is chosen by the environment, and `calls' is    *)
(* the history of the external calls made so far.                          *)
(***************************************************************************)
EXTENDS Integers, Sequences, FiniteSets, TLC

VARIABLES
  pc,               \* the position of the invocation in run / DeployWithConfig
  flags,            \* the command-line flags of the invocation (read through ctx)
  ctxConfig,        \* appconfig.ConfigFromContext(ctx): a config, or NilConfig
  appConfig,        \* the *appconfig.Config the pipeline works on
  appCompact,       \* the app summary returned by GetAppCompact
  appsV2DefaultOn,  \* the local of useMachines: the value the org lookup returned
  deployToMachines, \* the result of useMachines
  opts,             \* determineImage's imgsrc.ImageOptions, as given to BuildImage
  img,              \* the *imgsrc.DeploymentImage returned by determineImage
  release,          \* the *api.Release in effect
  releaseCommand,   \* the *api.ReleaseCommand returned by createRelease
  heartbeat,        \* TRUE while a heartbeat started by StartHeartbeat is running
  calls,            \* history: the external calls made, in order
  result,           \* "running", "ok", "error" or "panic"
  err,              \* the error returned by run: a chain of messages, <<>> for nil
  script            \* the run of the release script: position, repository, replies

vars == <<script, pc, flags, ctxConfig, appConfig, appCompact, appsV2DefaultOn,
          deployToMachines, opts, img,
          release, releaseCommand, heartbeat, calls, result, err>>

----------------------------------------------------------------------------
(* Values *)

MachinesPlatform == "machines"
NomadPlatform == "nomad"

NoError == <<>>

\* the release script not started
NoScript == [pc |-> "none", dirty |-> FALSE, aheadBehind |-> FALSE, BRANCH |-> "main",
             prompts |-> << >>, tagged |-> FALSE, pushed |-> FALSE, status |-> 0]
Error(msg) == <<msg>>
Wrap(msg, e) == <<msg>> \o e

\* a call made by the pipeline: its name, the argument the claims look at,
\* the strategy of the release it returned (if it returns one) and whether it
\* reported an error
CallRet(op, arg, ret, failed) == [op |-> op, arg |-> arg, ret |-> ret, err |-> failed]
Call(op, arg, failed) == CallRet(op, arg, "", failed)

Get(m, k) == IF k \in DOMAIN m THEN m[k] ELSE ""
EmptyMap == [k \in {} |-> ""]

NilImage == [nil |-> TRUE, Tag |-> ""]
Image(tag) == [nil |-> FALSE, Tag |-> tag]

NilRelease == [nil |-> TRUE, ID |-> "", DeploymentStrategy |-> "", EvaluationID |-> ""]
NilReleaseCommand == [nil |-> TRUE, ID |-> ""]

\* a path is the sequence of its components, "/" first when it is absolute;
\* the empty path is the empty string of the code
NoPath == << >>

\* a Go map: nil, or its entries
NilMap == [nil |-> TRUE, kv |-> EmptyMap]
Map(kv) == [nil |-> FALSE, kv |-> kv]

NilBuild == [nil |-> TRUE, Image |-> "", Args |-> NilMap, Dockerfile |-> NoPath,
             Ignorefile |-> NoPath, Target |-> ""]
NilConfig == [nil |-> TRUE, AppName |-> "", PrimaryRegion |-> "", Env |-> EmptyMap,
              Build |-> NilBuild, ConfigFilePath |-> NoPath]
NilApp == [nil |-> TRUE, Deployed |-> FALSE, PlatformVersion |-> ""]

\* imgsrc.ImageOptions before it is filled in
NoOptions == [Publish |-> FALSE, BuildSecrets |-> EmptyMap, BuildArgs |-> EmptyMap,
              DockerfilePath |-> NoPath, IgnorefilePath |-> NoPath, Target |-> ""]

----------------------------------------------------------------------------
(* The inputs of one invocation *)

\* a NAME=VALUE argument is the sequence of its pieces, "=" being a piece of
\* its own: <<"A", "=", "1">> is the argument A=1, <<"bad">> has no "="
EnvFlags == { <<>>, << <<"PRIMARY_REGION", "=", "fra">> >>, << <<"bad">> >> }
BuildArgFlags == { <<>>, << <<"A", "=", "1">> >>, << <<"bad">> >> }
BuildSecretFlags == { <<>>, << <<"bad">> >> }
ImageFlags == { "", "flag/img" }
RegionFlags == { "", "fra" }
DockerfileFlags == { NoPath, <<"Dockerfile.cli">> }
IgnorefileFlags == { NoPath, <<"ignore.cli">> }
BuildTargetFlags == { "", "cli" }
PushFlags == { FALSE }

AllFlags == [ForceNomad : BOOLEAN, ForceMachines : BOOLEAN, ForceYes : BOOLEAN,
             BuildOnly : BOOLEAN, Detach : BOOLEAN,
             Image : ImageFlags, Region : RegionFlags, Env : EnvFlags,
             BuildArg : BuildArgFlags, BuildSecret : BuildSecretFlags,
             Dockerfile : DockerfileFlags, Ignorefile : IgnorefileFlags,
             BuildTarget : BuildTargetFlags, Push : PushFlags]

\* the command lines of the model: one sets flags of the backend selection
\* and of the monitoring, or flags of the config and of the build, or flags
\* of the build's files and target, with the other flags left at their
\* defaults
BackendFlags ==
  { f \in AllFlags : /\ f.Region = "" /\ f.Env = <<>> /\ f.BuildArg = <<>>
                     /\ f.BuildSecret = <<>> /\ f.Dockerfile = NoPath
                     /\ f.Ignorefile = NoPath /\ f.BuildTarget = "" }
BuildFlags ==
  { f \in AllFlags : /\ ~f.ForceNomad /\ ~f.ForceMachines /\ ~f.ForceYes
                     /\ ~f.Detach
                     /\ f.Ignorefile = NoPath /\ f.BuildTarget = "" }
PathFlags ==
  { f \in AllFlags : /\ ~f.ForceNomad /\ ~f.ForceMachines /\ ~f.ForceYes
                     /\ ~f.Detach /\ ~f.BuildOnly /\ f.Image = ""
                     /\ f.Region = "" /\ f.Env = <<>> /\ f.BuildArg = <<>>
                     /\ f.BuildSecret = <<>> }
Flags == BackendFlags \cup BuildFlags \cup PathFlags

Builds == { NilBuild,
            [nil |-> FALSE, Image |-> "", Args |-> Map("A" :> "0" @@ "B" :> "2"),
             Dockerfile |-> <<"Dockerfile.prod">>, Ignorefile |-> NoPath, Target |-> ""],
            [nil |-> FALSE, Image |-> "cfg/img", Args |-> NilMap,
             Dockerfile |-> NoPath, Ignorefile |-> NoPath, Target |-> ""],
            [nil |-> FALSE, Image |-> "", Args |-> NilMap,
             Dockerfile |-> <<"docker", "Dockerfile">>,
             Ignorefile |-> <<"ignore.prod">>, Target |-> "prod"] }

\* the configurations a fly.toml in the working directory can hold
Configs == [nil : {FALSE}, AppName : {"cfgapp"}, PrimaryRegion : {"", "ams"},
            Env : {EmptyMap}, Build : Builds,
            ConfigFilePath : { <<"/", "app", "fly.toml">> }]

\* the configurations appconfig.FromRemoteApp returns: they come from no file
RemoteConfigs == { [nil |-> FALSE, AppName |-> "cfgapp", PrimaryRegion |-> "ams",
                    Env |-> EmptyMap, Build |-> NilBuild, ConfigFilePath |-> NoPath] }

Platforms == { NomadPlatform, MachinesPlatform }
Apps == [nil : {FALSE}, Deployed : BOOLEAN, PlatformVersion : Platforms]

Strategies == { "IMMEDIATE", "ROLLING" }
\* the release records the control plane returns: DeployImage creates "r1"
\* with evaluation "e1"; a later fetch of it may show another strategy and
\* another evaluation
CreatedReleases == [nil : {FALSE}, ID : {"r1"}, DeploymentStrategy : Strategies,
                    EvaluationID : {"e1"}]
FetchedReleases == [nil : {FALSE}, ID : {"r1"}, DeploymentStrategy : Strategies,
                    EvaluationID : {"e2"}]
ReleaseCommands == { NilReleaseCommand, [nil |-> FALSE, ID |-> "rc1"] }

\* the name the command context carries (command.RequireAppName)
AppNameFromContext == "app"

----------------------------------------------------------------------------
(* Helpers of other packages, as the deploy command relies on them *)

RECURSIVE Concat(_)
\* the pieces of a string put together again
Concat(pieces) ==
  IF pieces = <<>> THEN "" ELSE Head(pieces) \o Concat(Tail(pieces))

\* the position of the first "=" of an argument, 0 when it has none
FirstEq(arg) ==
  IF \E i \in 1..Len(arg) : arg[i] = "="
  THEN CHOOSE i \in 1..Len(arg) : arg[i] = "=" /\ \A j \in 1..(i - 1) : arg[j] # "="
  ELSE 0

KeyOf(arg) == Concat(SubSeq(arg, 1, FirstEq(arg) - 1))
ValueOf(arg) == Concat(SubSeq(arg, FirstEq(arg) + 1, Len(arg)))

\* cmdutil.ParseKVStringsToMap: every argument is split at its first "=";
\* an argument without one is an error; a later argument overwrites an
\* earlier one of the same name
ParseKVStringsToMap(args) ==
  IF \E i \in 1..Len(args) : FirstEq(args[i]) = 0
  THEN [err |-> TRUE, map |-> EmptyMap]
  ELSE [err |-> FALSE,
        map |-> [k \in { KeyOf(args[i]) : i \in 1..Len(args) } |->
                   LET last == CHOOSE i \in 1..Len(args) :
                                 /\ KeyOf(args[i]) = k
                                 /\ \A j \in (i + 1)..Len(args) : KeyOf(args[j]) # k
                   IN  ValueOf(args[last])]]

\* (*Config).SetEnvVariables / SetEnvVariable: the given entries overwrite
\* the config's environment, key by key
SetEnvVariables(cfg, vals) ==
  [cfg EXCEPT !.Env = [k \in DOMAIN cfg.Env \cup DOMAIN vals |->
                         IF k \in DOMAIN vals THEN vals[k] ELSE cfg.Env[k]]]

SetEnvVariable(cfg, name, value) ==
  SetEnvVariables(cfg, [k \in {name} |-> value])

----------------------------------------------------------------------------
(* useMachines with its first two cases the other way round *)
useMachinesForceMachinesFirst(app, args, defaultOn) ==
  IF ~app.Deployed /\ args.ForceMachines THEN TRUE
  ELSE IF ~app.Deployed /\ args.ForceNomad THEN FALSE
  ELSE IF ~app.Deployed /\ app.PlatformVersion = MachinesPlatform THEN TRUE
  ELSE IF app.Deployed THEN app.PlatformVersion = MachinesPlatform
  ELSE IF args.ForceYes THEN defaultOn
  ELSE defaultOn

(* useMachines with auto-confirm taken as a yes to the modern backend *)
useMachinesForceYesOn(app, args, defaultOn) ==
  IF ~app.Deployed /\ args.ForceNomad THEN FALSE
  ELSE IF ~app.Deployed /\ args.ForceMachines THEN TRUE
  ELSE IF ~app.Deployed /\ app.PlatformVersion = MachinesPlatform THEN TRUE
  ELSE IF app.Deployed THEN app.PlatformVersion = MachinesPlatform
  ELSE IF args.ForceYes THEN TRUE
  ELSE defaultOn

(* useMachines, lines 234-250: the backend selection, given the app summary,
   the arguments of DeployWithConfig and the value the org lookup returned *)

useMachines(app, args, defaultOn) ==
  IF ~app.Deployed /\ args.ForceNomad THEN FALSE
  ELSE IF ~app.Deployed /\ args.ForceMachines THEN TRUE
  ELSE IF ~app.Deployed /\ app.PlatformVersion = MachinesPlatform THEN TRUE
  ELSE IF app.Deployed THEN app.PlatformVersion = MachinesPlatform
  ELSE IF args.ForceYes THEN defaultOn
  ELSE defaultOn

\* the DeployWithConfigArgs run builds from the flags, lines 115-119
DeployWithConfigArgs(fl) ==
  [ForceNomad |-> fl.ForceNomad, ForceMachines |-> fl.ForceMachines,
   ForceYes |-> fl.ForceYes]

\* fetchImageRef looking at the config before the flag
fetchImageRefConfigFirst(fl, cfg) ==
  IF ~cfg.nil /\ ~cfg.Build.nil /\ cfg.Build.Image # "" THEN cfg.Build.Image
  ELSE fl.Image

\* fetchImageRef, lines 460-472: the --image flag, else the config's build image
fetchImageRef(fl, cfg) ==
  IF fl.Image # "" THEN fl.Image
  ELSE IF ~cfg.nil /\ ~cfg.Build.nil /\ cfg.Build.Image # "" THEN cfg.Build.Image
  ELSE ""

----------------------------------------------------------------------------
(* determineAppConfig, lines 253-303.  The outcomes of the calls it makes
   are its last four parameters; the result is the config and the error it
   returns and the calls it made. *)

determineAppConfig(fl, ctxCfg, flapsErr, remoteErr, remoteCfg, validateErr) ==
  LET fetch   == ctxCfg.nil
      c1      == IF fetch
                 THEN << Call("flaps.NewFromAppName", AppNameFromContext, flapsErr) >>
                 ELSE << >>
      c2      == IF fetch /\ ~flapsErr
                 THEN << Call("appconfig.FromRemoteApp", AppNameFromContext, remoteErr) >>
                 ELSE << >>
      cfg0    == IF fetch THEN remoteCfg ELSE ctxCfg
      hasEnv  == Len(fl.Env) > 0
      parsed  == ParseKVStringsToMap(fl.Env)
      c3      == IF hasEnv
                 THEN << Call("cmdutil.ParseKVStringsToMap", "env", parsed.err) >>
                 ELSE << >>
      cfg1    == IF hasEnv THEN SetEnvVariables(cfg0, parsed.map) ELSE cfg0
      cfg2    == IF fl.Region # "" THEN [cfg1 EXCEPT !.PrimaryRegion = fl.Region] ELSE cfg1
      cfg3    == IF AppNameFromContext # ""
                 THEN [cfg2 EXCEPT !.AppName = AppNameFromContext] ELSE cfg2
      c4      == << Call("Config.Validate", cfg3.AppName, validateErr) >>
  IN  IF fetch /\ flapsErr
        THEN [cfg |-> NilConfig, calls |-> c1,
              err |-> Wrap("could not create flaps client", Error("flaps.NewFromAppName"))]
      ELSE IF fetch /\ remoteErr
        THEN [cfg |-> NilConfig, calls |-> c1 \o c2, err |-> Error("appconfig.FromRemoteApp")]
      ELSE IF hasEnv /\ parsed.err
        THEN [cfg |-> cfg0, calls |-> c1 \o c2 \o c3,
              err |-> Wrap("failed parsing environment", Error("cmdutil.ParseKVStringsToMap"))]
      ELSE IF validateErr
        THEN [cfg |-> cfg3, calls |-> c1 \o c2 \o c3 \o c4, err |-> Error("Config.Validate")]
      ELSE [cfg |-> cfg3, calls |-> c1 \o c2 \o c3 \o c4, err |-> NoError]

----------------------------------------------------------------------------
(* Paths (path/filepath) *)

WorkingDir == <<"/", "wd">>

IsAbs(p) == p # NoPath /\ Head(p) = "/"

\* filepath.Dir: all but the last component; "." for a bare name or no path
Dir(p) ==
  IF Len(p) >= 2 THEN SubSeq(p, 1, Len(p) - 1)
  ELSE IF IsAbs(p) THEN p
  ELSE <<".">>

\* filepath.Join of a directory and a path
Join(d, p) ==
  (IF d = <<".">> THEN << >> ELSE d) \o (IF IsAbs(p) THEN Tail(p) ELSE p)

\* filepath.Abs: an absolute path stays; a relative one is joined to the
\* working directory, which os.Getwd may fail to give
Abs(p, getwdErr) ==
  IF IsAbs(p) THEN [path |-> p, err |-> FALSE]
  ELSE IF getwdErr THEN [path |-> NoPath, err |-> TRUE]
  ELSE [path |-> Join(WorkingDir, p), err |-> FALSE]

----------------------------------------------------------------------------
(* determineImage and its helpers, lines 307-472 *)

\* (*Config).Dockerfile, Ignorefile, DockerBuildTarget: the build section's
\* value, empty without a build section
ConfigDockerfile(cfg) == IF cfg.nil \/ cfg.Build.nil THEN NoPath ELSE cfg.Build.Dockerfile
ConfigIgnorefile(cfg) == IF cfg.nil \/ cfg.Build.nil THEN NoPath ELSE cfg.Build.Ignorefile
DockerBuildTarget(cfg) == IF cfg.nil \/ cfg.Build.nil THEN "" ELSE cfg.Build.Target

\* (*Config).BuildStrategies is not empty
HasBuildStrategies(cfg) ==
  /\ ~cfg.nil
  /\ ~cfg.Build.nil
  /\ (cfg.Build.Image # "" \/ cfg.Build.Dockerfile # NoPath \/ cfg.Build.Target # "")

\* the --dockerfile flag taken before the config's Dockerfile
dockerfilePathFlagFirst(fl, cfg) ==
  IF fl.Dockerfile # NoPath
  THEN fl.Dockerfile
  ELSE IF ConfigDockerfile(cfg) # NoPath
  THEN Join(Dir(cfg.ConfigFilePath), ConfigDockerfile(cfg))
  ELSE NoPath

\* resolveDockerfilePath, lines 416-420: the path before the deferred Abs
dockerfilePath(fl, cfg) ==
  IF ConfigDockerfile(cfg) # NoPath
  THEN Join(Dir(cfg.ConfigFilePath), ConfigDockerfile(cfg))
  ELSE fl.Dockerfile

\* resolveDockerfilePath, lines 409-423
resolveDockerfilePath(fl, cfg, getwdErr) ==
  LET path == dockerfilePath(fl, cfg)
  IN  IF path # NoPath THEN Abs(path, getwdErr) ELSE [path |-> path, err |-> FALSE]

\* resolveIgnorefilePath, lines 434-438: the path before the deferred Abs
ignorefilePath(fl, cfg) ==
  IF ConfigIgnorefile(cfg) # NoPath
  THEN Join(Dir(cfg.ConfigFilePath), ConfigIgnorefile(cfg))
  ELSE fl.Ignorefile

\* resolveIgnorefilePath, lines 427-441
resolveIgnorefilePath(fl, cfg, getwdErr) ==
  LET path == ignorefilePath(fl, cfg)
  IN  IF path # NoPath THEN Abs(path, getwdErr) ELSE [path |-> path, err |-> FALSE]

\* whether os.Getwd can fail in Abs(p): it is called for a relative path only
GetwdErrs(p) == IF p # NoPath /\ ~IsAbs(p) THEN BOOLEAN ELSE {FALSE}

\* the build target, lines 386-390
resolveTarget(fl, cfg) ==
  IF DockerBuildTarget(cfg) # "" THEN DockerBuildTarget(cfg)
  ELSE fl.BuildTarget

\* the merge in which a value of the config is kept over the command line's
mergeBuildArgsConfigWins(fl, args) ==
  LET parsed == ParseKVStringsToMap(fl.BuildArg)
      base   == IF args.nil THEN EmptyMap ELSE args.kv
      merged == [k \in DOMAIN base \cup DOMAIN parsed.map |->
                   IF k \in DOMAIN base THEN base[k] ELSE parsed.map[k]]
  IN  IF parsed.err
      THEN [err |-> TRUE, args |-> NilMap, given |-> args]
      ELSE [err |-> FALSE, args |-> Map(merged),
            given |-> IF args.nil THEN args ELSE Map(merged)]

\* mergeBuildArgs, lines 443-458.  args is the map of the config's build
\* section: `given' is that map after the call (a map that is not nil is
\* written in place), `args' the map returned.
mergeBuildArgs(fl, args) ==
  LET parsed == ParseKVStringsToMap(fl.BuildArg)
      base   == IF args.nil THEN EmptyMap ELSE args.kv
      merged == [k \in DOMAIN base \cup DOMAIN parsed.map |->
                   IF k \in DOMAIN parsed.map THEN parsed.map[k] ELSE base[k]]
  IN  IF parsed.err
      THEN [err |-> TRUE, args |-> NilMap, given |-> args]
      ELSE [err |-> FALSE, args |-> Map(merged),
            given |-> IF args.nil THEN args ELSE Map(merged)]

\* determineImage up to the call of the resolver, lines 307-393.  g1, g2, g3
\* say whether os.Getwd fails in the three path resolutions.  The result:
\* the error returned before any resolver call (if any), the image reference
\* to resolve (if any), the build options, the config as the function leaves
\* it and the calls made.
determineImageOpts(fl, cfg, g1, g2, g3) ==
  LET df1     == resolveDockerfilePath(fl, cfg, g1)
      c1      == IF HasBuildStrategies(cfg)
                 THEN << Call("resolveDockerfilePath", "warning", df1.err) >>
                 ELSE << >>
      ref     == fetchImageRef(fl, cfg)
      secrets == ParseKVStringsToMap(fl.BuildSecret)
      c2      == << Call("cmdutil.ParseKVStringsToMap", "build-secret", secrets.err) >>
      buildArgs == IF cfg.Build.nil THEN NilMap ELSE cfg.Build.Args
      merge   == mergeBuildArgs(fl, buildArgs)
      c3      == << Call("cmdutil.ParseKVStringsToMap", "build-arg", merge.err) >>
      cfgM    == IF cfg.Build.nil THEN cfg ELSE [cfg EXCEPT !.Build.Args = merge.given]
      df2     == resolveDockerfilePath(fl, cfgM, g2)
      c4      == << Call("resolveDockerfilePath", "build", df2.err) >>
      ig      == resolveIgnorefilePath(fl, cfgM, g3)
      c5      == << Call("resolveIgnorefilePath", "build", ig.err) >>
      built   == [Publish |-> fl.Push \/ ~fl.BuildOnly, BuildSecrets |-> secrets.map,
                  BuildArgs |-> merge.args.kv, DockerfilePath |-> df2.path,
                  IgnorefilePath |-> ig.path, Target |-> resolveTarget(fl, cfgM)]
      none    == NoOptions
  IN  IF ref # ""
        THEN [err |-> NoError, ref |-> ref, opts |-> none, cfg |-> cfg, calls |-> c1]
      ELSE IF secrets.err
        THEN [err |-> Error("cmdutil.ParseKVStringsToMap"), ref |-> "", opts |-> none,
              cfg |-> cfg, calls |-> c1 \o c2]
      ELSE IF merge.err
        THEN [err |-> Wrap("invalid build args", Error("cmdutil.ParseKVStringsToMap")),
              ref |-> "", opts |-> none, cfg |-> cfgM, calls |-> c1 \o c2 \o c3]
      ELSE IF df2.err
        THEN [err |-> Error("filepath.Abs"), ref |-> "", opts |-> none, cfg |-> cfgM,
              calls |-> c1 \o c2 \o c3 \o c4]
      ELSE IF ig.err
        THEN [err |-> Error("filepath.Abs"), ref |-> "", opts |-> none, cfg |-> cfgM,
              calls |-> c1 \o c2 \o c3 \o c4 \o c5]
      ELSE [err |-> NoError, ref |-> "", opts |-> built, cfg |-> cfgM,
            calls |-> c1 \o c2 \o c3 \o c4 \o c5]

----------------------------------------------------------------------------
(* The invocation *)

Init ==
  /\ script = NoScript
  /\ pc = "run"
  /\ flags \in Flags
  /\ ctxConfig \in Configs \cup {NilConfig}
  /\ appConfig = NilConfig
  /\ appCompact = NilApp
  /\ appsV2DefaultOn = FALSE
  /\ deployToMachines = FALSE
  /\ opts = NoOptions
  /\ img = NilImage
  /\ release = NilRelease
  /\ releaseCommand = NilReleaseCommand
  /\ heartbeat = FALSE
  /\ calls = << >>
  /\ result = "running"
  /\ err = NoError

\* the invocation returns e (nil: success)
Return(e) ==
  /\ pc' = "done"
  /\ result' = IF e = NoError THEN "ok" ELSE "error"
  /\ err' = e

\* the invocation goes on at position p
Goto(p) ==
  /\ pc' = p
  /\ UNCHANGED <<result, err>>

\* run, lines 109-113: determineAppConfig, and return on its error
Run ==
  /\ pc = "run"
  /\ \E flapsErr \in BOOLEAN, remoteErr \in BOOLEAN, remoteCfg \in RemoteConfigs,
        validateErr \in BOOLEAN :
       LET r == determineAppConfig(flags, ctxConfig, flapsErr, remoteErr, remoteCfg,
                                   validateErr)
       IN  /\ appConfig' = r.cfg
           /\ calls' = calls \o r.calls
           /\ IF r.err # NoError THEN Return(r.err) ELSE Goto("GetAppCompact")
  /\ UNCHANGED <<script, flags, ctxConfig, opts, appCompact, appsV2DefaultOn, deployToMachines,
                 img, release, releaseCommand, heartbeat>>

\* DeployWithConfig, lines 129-134: fetch the app summary
GetAppCompact ==
  /\ pc = "GetAppCompact"
  /\ \/ /\ calls' = Append(calls, Call("GetAppCompact", AppNameFromContext, TRUE))
        /\ Return(Error("GetAppCompact"))
        /\ UNCHANGED appCompact
     \/ \E app \in Apps :
          /\ calls' = Append(calls, Call("GetAppCompact", AppNameFromContext, FALSE))
          /\ appCompact' = app
          /\ Goto("useMachines")
  /\ UNCHANGED <<script, flags, ctxConfig, opts, appConfig, appsV2DefaultOn, deployToMachines,
                 img, release, releaseCommand, heartbeat>>

\* useMachines, line 235: the org lookup, whose error is discarded
GetAppsV2DefaultOnForOrg ==
  /\ pc = "useMachines"
  /\ \E v \in BOOLEAN, failed \in BOOLEAN :
       /\ failed => ~v
       /\ appsV2DefaultOn' = v
       /\ calls' = Append(calls, Call("GetAppsV2DefaultOnForOrg", "org", failed))
  /\ Goto("useMachines.switch")
  /\ UNCHANGED <<script, flags, ctxConfig, opts, appConfig, appCompact, deployToMachines, img,
                 release, releaseCommand, heartbeat>>

\* the error useMachines returns, lines 236-249: always nil
useMachinesErr == NoError

\* useMachines, lines 236-250, and DeployWithConfig, lines 135-140
UseMachines ==
  /\ pc = "useMachines.switch"
  /\ LET m == useMachines(appCompact, DeployWithConfigArgs(flags), appsV2DefaultOn)
     IN  /\ deployToMachines' = m
         /\ IF useMachinesErr # NoError THEN Return(useMachinesErr)
            ELSE IF m THEN Goto("EnsureV2Config")
            ELSE Goto("determineImage")
  /\ appsV2DefaultOn' = FALSE
  /\ UNCHANGED <<script, flags, ctxConfig, opts, appConfig, appCompact, img, release,
                 releaseCommand, heartbeat, calls>>

\* DeployWithConfig, lines 140-145
EnsureV2Config ==
  /\ pc = "EnsureV2Config"
  /\ \E failed \in BOOLEAN :
       /\ calls' = Append(calls, Call("EnsureV2Config", appConfig.AppName, failed))
       /\ IF failed
          THEN Return(Wrap("Can't deploy an invalid app config", Error("EnsureV2Config")))
          ELSE Goto("determineImage")
  /\ UNCHANGED <<script, flags, ctxConfig, opts, appConfig, appCompact, appsV2DefaultOn,
                 deployToMachines, img, release, releaseCommand, heartbeat>>

\* what the resolver's calls return: an error, neither error nor image, or
\* an image
Outcomes == { "error", "nil", "image" }

resolvedImage(out) == IF out = "image" THEN Image("registry/app:tag") ELSE NilImage

\* determineImage, lines 339-341: the result of ResolveReference is returned
\* as it is
resolveReferenceErr(out) ==
  IF out = "error" THEN Error("ResolveReference") ELSE NoError

\* determineImage, lines 395-397: the result of BuildImage, no image being
\* an error
buildImageErr(out) ==
  IF out = "error" THEN Error("BuildImage")
  ELSE IF out = "nil" THEN Error("no image specified")
  ELSE NoError

\* StopHeartbeat called at the end of the success path instead of deferred
heartbeatStoppedOnSuccessOnly(e) == e # NoError

\* determineImage, line 394: the deferred StopHeartbeat runs when the
\* function returns, whatever it returns; the heartbeat is then off
heartbeatOnReturn(e) == FALSE

\* the build-only check left out
buildOnlyIgnored(fl) == FALSE

\* DeployWithConfig, line 153
buildOnlyReturns(fl) == fl.BuildOnly

\* the primary region written whether or not the entry is set
injectPrimaryRegionAlways(cfg) ==
  IF cfg.PrimaryRegion # ""
  THEN SetEnvVariable(cfg, "PRIMARY_REGION", cfg.PrimaryRegion)
  ELSE cfg

\* DeployWithConfig, lines 161-163
injectPrimaryRegion(cfg) ==
  IF cfg.PrimaryRegion # "" /\ Get(cfg.Env, "PRIMARY_REGION") = ""
  THEN SetEnvVariable(cfg, "PRIMARY_REGION", cfg.PrimaryRegion)
  ELSE cfg

\* the backend useMachines did not select
dispatchOther(machines) == IF machines THEN "createRelease" ELSE "NewMachineDeployment"

\* DeployWithConfig, lines 165 and 193: the backend dispatched
dispatch(machines) == IF machines THEN "NewMachineDeployment" ELSE "createRelease"

\* DeployWithConfig, lines 148-165, once determineImage has returned image
\* and e, cfg being the config as determineImage left it
AfterDetermineImage(image, e, cfg) ==
  /\ img' = image
  /\ IF e # NoError
     THEN /\ Return(Wrap("failed to fetch an image or build from source", e))
          /\ appConfig' = cfg
     ELSE IF buildOnlyReturns(flags)
     THEN /\ Return(NoError)
          /\ appConfig' = cfg
     ELSE /\ Goto(dispatch(deployToMachines))
          /\ appConfig' = injectPrimaryRegion(cfg)

\* determineImage, lines 307-393: up to the return of ResolveReference, or
\* an early error, or the start of the heartbeat before BuildImage
DetermineImage ==
  /\ pc = "determineImage"
  /\ \E g1 \in GetwdErrs(dockerfilePath(flags, appConfig)),
        g2 \in GetwdErrs(dockerfilePath(flags, appConfig)),
        g3 \in GetwdErrs(ignorefilePath(flags, appConfig)), out \in Outcomes :
       LET d == determineImageOpts(flags, appConfig, g1, g2, g3)
       IN  IF d.ref # ""
           THEN /\ calls' = Append(calls \o d.calls,
                                   Call("ResolveReference", d.ref, out = "error"))
                /\ AfterDetermineImage(resolvedImage(out), resolveReferenceErr(out), d.cfg)
                /\ UNCHANGED <<heartbeat, opts>>
           ELSE IF d.err # NoError
           THEN /\ calls' = calls \o d.calls
                /\ AfterDetermineImage(NilImage, d.err, d.cfg)
                /\ UNCHANGED <<heartbeat, opts>>
           ELSE /\ calls' = Append(calls \o d.calls,
                                   Call("StartHeartbeat", appConfig.AppName, FALSE))
                /\ heartbeat' = TRUE
                /\ opts' = d.opts
                /\ appConfig' = d.cfg
                /\ Goto("BuildImage")
                /\ UNCHANGED img
  /\ UNCHANGED <<script, flags, ctxConfig, appCompact, appsV2DefaultOn, deployToMachines,
                 release, releaseCommand>>

\* determineImage, lines 394-404: BuildImage returns
BuildImage ==
  /\ pc = "BuildImage"
  /\ \E out \in Outcomes :
       /\ calls' = Append(calls, Call("BuildImage", appConfig.AppName, out = "error"))
       /\ heartbeat' = heartbeatOnReturn(buildImageErr(out))
       /\ AfterDetermineImage(resolvedImage(out), buildImageErr(out), appConfig)
  /\ UNCHANGED <<script, flags, ctxConfig, opts, appCompact, appsV2DefaultOn, deployToMachines,
                 release, releaseCommand>>

\* the image tag a backend is given; a nil image has none
TagOf(image) == IF image.nil THEN "<nil>" ELSE image.Tag

\* DeployWithConfig, lines 165-185: the machine deployment is constructed
NewMachineDeployment ==
  /\ pc = "NewMachineDeployment"
  /\ \E failed \in BOOLEAN :
       /\ calls' = Append(calls, Call("NewMachineDeployment", TagOf(img), failed))
       /\ IF failed THEN Return(Error("NewMachineDeployment"))
          ELSE Goto("DeployMachinesApp")
  /\ UNCHANGED <<script, flags, ctxConfig, opts, appConfig, appCompact, appsV2DefaultOn,
                 deployToMachines, img, release, releaseCommand, heartbeat>>

\* the machines branch returning on an error only, and falling through to
\* the release otherwise
rolloutReturnsOnError(e) == e # NoError

\* DeployWithConfig, line 190: the machines branch returns whatever the
\* rollout returned
rolloutReturns(e) == TRUE

\* DeployWithConfig, lines 186-191: the rollout
DeployMachinesApp ==
  /\ pc = "DeployMachinesApp"
  /\ \E failed \in BOOLEAN :
       LET e == IF failed THEN Error("DeployMachinesApp") ELSE NoError
       IN  /\ calls' = Append(calls, Call("DeployMachinesApp", TagOf(img), failed))
           /\ IF rolloutReturns(e) THEN Return(e) ELSE Goto("createRelease")
  /\ UNCHANGED <<script, flags, ctxConfig, opts, appConfig, appCompact, appsV2DefaultOn,
                 deployToMachines, img, release, releaseCommand, heartbeat>>

\* the detach check left out
detachIgnored(fl) == FALSE

\* DeployWithConfig, line 198
detachReturns(fl) == fl.Detach

\* DeployWithConfig, line 207
hasReleaseCommand(rc) == ~rc.nil

\* the strategy compared with the flag's spelling instead of the API's
isImmediateLowerCase(rel) == rel.DeploymentStrategy = "immediate"

\* DeployWithConfig, line 222
isImmediate(rel) == rel.DeploymentStrategy = "IMMEDIATE"

\* DeployWithConfig, lines 222-229, with the release rel in effect
MonitorRelease(rel) ==
  IF isImmediate(rel) THEN Return(NoError) ELSE Goto("watch.Deployment")

\* createRelease, lines 474-498, and DeployWithConfig, lines 193-227.  The
\* image is dereferenced at line 479 before any call: a nil image is a nil
\* pointer dereference, and the invocation ends in a panic.
CreateRelease ==
  /\ pc = "createRelease"
  /\ IF img.nil
     THEN /\ pc' = "done"
          /\ result' = "panic"
          /\ UNCHANGED <<err, calls, release, releaseCommand>>
     ELSE \/ /\ calls' = Append(calls, Call("DeployImage", TagOf(img), TRUE))
             /\ Return(Error("DeployImage"))
             /\ UNCHANGED <<release, releaseCommand>>
          \/ \E rel \in CreatedReleases, rc \in ReleaseCommands :
               /\ calls' = Append(calls, CallRet("DeployImage", TagOf(img),
                                                 rel.DeploymentStrategy, FALSE))
               /\ release' = rel
               /\ releaseCommand' = rc
               /\ IF detachReturns(flags) THEN Return(NoError)
                  ELSE IF hasReleaseCommand(rc) THEN Goto("watch.ReleaseCommand")
                  ELSE MonitorRelease(rel)
  /\ UNCHANGED <<script, flags, ctxConfig, opts, appConfig, appCompact, appsV2DefaultOn,
                 deployToMachines, img, heartbeat>>

\* the error of watch.ReleaseCommand dropped
afterReleaseCommandIgnoringError(e) == "GetAppReleaseNomad"

\* DeployWithConfig, lines 212-214: the position after watch.ReleaseCommand
\* returned e
afterReleaseCommand(e) == IF e # NoError THEN "done" ELSE "GetAppReleaseNomad"

\* DeployWithConfig, lines 212-214: the release command is watched
WatchReleaseCommand ==
  /\ pc = "watch.ReleaseCommand"
  /\ \E failed \in BOOLEAN :
       LET e == IF failed THEN Error("watch.ReleaseCommand") ELSE NoError
       IN  /\ calls' = Append(calls, Call("watch.ReleaseCommand", releaseCommand.ID, failed))
           /\ IF afterReleaseCommand(e) = "done" THEN Return(e)
              ELSE Goto(afterReleaseCommand(e))
  /\ UNCHANGED <<script, flags, ctxConfig, opts, appConfig, appCompact, appsV2DefaultOn,
                 deployToMachines, img, release, releaseCommand, heartbeat>>

\* the created release kept, the fetched one dropped
refetchedReleaseDropped(created, fetched) == created

\* DeployWithConfig, line 216: the fetched release is assigned to `release`
refetchedRelease(created, fetched) == fetched

\* DeployWithConfig, lines 216-227: the release is fetched again
GetAppReleaseNomad ==
  /\ pc = "GetAppReleaseNomad"
  /\ \/ /\ calls' = Append(calls, Call("GetAppReleaseNomad", release.ID, TRUE))
        /\ release' = NilRelease
        /\ Return(Error("GetAppReleaseNomad"))
     \/ \E rel \in FetchedReleases :
          /\ calls' = Append(calls, CallRet("GetAppReleaseNomad", release.ID,
                                            rel.DeploymentStrategy, FALSE))
          /\ release' = refetchedRelease(release, rel)
          /\ MonitorRelease(refetchedRelease(release, rel))
  /\ UNCHANGED <<script, flags, ctxConfig, opts, appConfig, appCompact, appsV2DefaultOn,
                 deployToMachines, img, releaseCommand, heartbeat>>

\* DeployWithConfig, lines 229-231: the deployment is watched, and its
\* result returned
WatchDeployment ==
  /\ pc = "watch.Deployment"
  /\ \E failed \in BOOLEAN :
       /\ calls' = Append(calls, Call("watch.Deployment", release.EvaluationID, failed))
       /\ Return(IF failed THEN Error("watch.Deployment") ELSE NoError)
  /\ UNCHANGED <<script, flags, ctxConfig, opts, appConfig, appCompact, appsV2DefaultOn,
                 deployToMachines, img, release, releaseCommand, heartbeat>>

Next ==
  \/ Run
  \/ GetAppCompact
  \/ GetAppsV2DefaultOnForOrg
  \/ UseMachines
  \/ EnsureV2Config
  \/ DetermineImage
  \/ BuildImage
  \/ NewMachineDeployment
  \/ DeployMachinesApp
  \/ CreateRelease
  \/ WatchReleaseCommand
  \/ GetAppReleaseNomad
  \/ WatchDeployment

Spec == Init /\ [][Next]_vars

----------------------------------------------------------------------------
(* What the history shows *)

Last(s) == s[Len(s)]

\* op was called
Called(op) == \E i \in 1..Len(calls) : calls[i].op = op

\* op was called and reported no error
Succeeded(op) == \E i \in 1..Len(calls) : calls[i].op = op /\ ~calls[i].err

\* op was called and reported an error
Failed(op) == \E i \in 1..Len(calls) : calls[i].op = op /\ calls[i].err

\* createRelease was entered: it called DeployImage, or it panicked before
createReleaseEntered == Called("DeployImage") \/ result = "panic"

\* the calls that monitor a release
Monitoring == { "watch.ReleaseCommand", "GetAppReleaseNomad", "watch.Deployment" }

\* the calls of the two backends
Backend == { "DeployImage", "NewMachineDeployment", "DeployMachinesApp" } \cup Monitoring

\* how many of Release and RolloutSpec the invocation has produced
Produced ==
  (IF Succeeded("DeployImage") THEN 1 ELSE 0)
    + (IF Succeeded("NewMachineDeployment") THEN 1 ELSE 0)

----------------------------------------------------------------------------
(* The claims *)

\* C1, as stated: every invocation that has returned has produced exactly
\* one of Release and RolloutSpec.
C1_ExactlyOnePerInvocation ==
  pc = "done" => Produced = 1

\* C1, amended: the two backends are never both triggered, so at most one of
\* Release and RolloutSpec is produced; an invocation that returns success
\* has produced exactly one, or none when build-only was requested.
C1_AtMostOneBackend ==
  /\ ~(createReleaseEntered /\ Called("NewMachineDeployment"))
  /\ Produced <= 1
  /\ (pc = "done" /\ result = "ok" /\ ~flags.BuildOnly) => Produced = 1
  /\ (pc = "done" /\ result = "ok" /\ flags.BuildOnly) => Produced = 0

C1_Witness ==
  /\ pc = "done"
  /\ result = "ok"
  /\ Succeeded("DeployMachinesApp")
  /\ Produced = 1

\* C2: the backend useMachines selects is the one of the first matching row
\* of the priority table: never deployed and force-nomad, legacy; else never
\* deployed and force-machines, modern; else never deployed and marked
\* "machines", modern; deployed, the app's own marker; else the value of the
\* org lookup.
C2_PriorityTable ==
  [][pc = "useMachines.switch" =>
       LET app == appCompact
           m   == deployToMachines'
       IN  /\ (~app.Deployed /\ flags.ForceNomad) => (m = FALSE)
           /\ (~app.Deployed /\ ~flags.ForceNomad /\ flags.ForceMachines) => (m = TRUE)
           /\ (~app.Deployed /\ ~flags.ForceNomad /\ ~flags.ForceMachines
                 /\ app.PlatformVersion = MachinesPlatform) => (m = TRUE)
           /\ app.Deployed => (m = (app.PlatformVersion = MachinesPlatform))
           /\ (~app.Deployed /\ ~flags.ForceNomad /\ ~flags.ForceMachines
                 /\ app.PlatformVersion # MachinesPlatform) => (m = appsV2DefaultOn)
    ]_vars

\* never deployed, both force flags set, the org default on: legacy
C2_Witness ==
  /\ pc = "determineImage"
  /\ ~appCompact.Deployed
  /\ flags.ForceNomad
  /\ flags.ForceMachines
  /\ appCompact.PlatformVersion = MachinesPlatform
  /\ ~deployToMachines

\* C3: the backend selected is the one useMachines selects for the same app
\* summary, force flags and org default with ForceYes the other way round.
C3_ForceYesInert ==
  [][pc = "useMachines.switch" =>
       deployToMachines' =
         useMachines(appCompact,
                     [DeployWithConfigArgs(flags) EXCEPT !.ForceYes = ~flags.ForceYes],
                     appsV2DefaultOn)
    ]_vars

\* the selection has fallen through to the ForceYes case, and followed the
\* org default
C3_Witness ==
  /\ pc = "EnsureV2Config"
  /\ flags.ForceYes
  /\ ~appCompact.Deployed
  /\ ~flags.ForceNomad
  /\ ~flags.ForceMachines
  /\ appCompact.PlatformVersion = NomadPlatform
  /\ deployToMachines

\* determineImage has returned an image and no error
ImageDetermined ==
  /\ calls # << >>
  /\ Last(calls).op \in { "ResolveReference", "BuildImage" }
  /\ ~Last(calls).err
  /\ ~img.nil

\* C4: with build-only no call of either backend is ever made, and once the
\* image is determined the invocation has returned success.
C4_BuildOnly ==
  flags.BuildOnly =>
    /\ \A i \in 1..Len(calls) : calls[i].op \notin Backend
    /\ ~createReleaseEntered
    /\ ImageDetermined => (pc = "done" /\ result = "ok")

C4_Witness ==
  /\ flags.BuildOnly
  /\ deployToMachines
  /\ ImageDetermined
  /\ pc = "done"

\* C5: when the resolver's call returns neither an error nor an image,
\* determineImage fails with "no image specified", and no backend is ever
\* given a nil image.
C5_NoNilImage ==
  /\ pc \in { "createRelease", "NewMachineDeployment" } => ~img.nil
  /\ (/\ pc = "done"
      /\ calls # << >>
      /\ Last(calls).op \in { "ResolveReference", "BuildImage" }
      /\ ~Last(calls).err
      /\ img.nil)
     => err = Wrap("failed to fetch an image or build from source",
                   Error("no image specified"))

\* C6: when watching the release command fails, the invocation returns that
\* failure, and neither fetches the release again nor watches it.
C6_ReleaseCommandFailure ==
  Failed("watch.ReleaseCommand") =>
    /\ pc = "done"
    /\ result = "error"
    /\ err = Error("watch.ReleaseCommand")
    /\ ~Called("GetAppReleaseNomad")
    /\ ~Called("watch.Deployment")

C6_Witness ==
  /\ Failed("watch.ReleaseCommand")
  /\ ~releaseCommand.nil
  /\ pc = "done"

\* DeployImage returned a release of strategy IMMEDIATE
CreatedImmediate ==
  \E i \in 1..Len(calls) :
    calls[i].op = "DeployImage" /\ ~calls[i].err /\ calls[i].ret = "IMMEDIATE"

\* C7, as stated: when the release createRelease created has strategy
\* IMMEDIATE, the invocation returns success and never watches the deployment.
C7_CreatedImmediateNoWatch ==
  CreatedImmediate =>
    /\ ~Called("watch.Deployment")
    /\ pc = "done" => result = "ok"

\* C7, amended: when the release createRelease created has strategy
\* IMMEDIATE and no release command came with it, the invocation returns
\* success at once and never watches the deployment.
C7_ImmediateNoWatch ==
  (CreatedImmediate /\ releaseCommand.nil) =>
    /\ ~Called("watch.Deployment")
    /\ pc = "done"
    /\ result = "ok"

C7_Witness ==
  /\ CreatedImmediate
  /\ releaseCommand.nil
  /\ ~flags.Detach
  /\ pc = "done"

\* C8: with detach, once createRelease has succeeded the invocation has
\* returned success and made no monitoring call.
C8_DetachNoMonitoring ==
  (flags.Detach /\ Succeeded("DeployImage")) =>
    /\ pc = "done"
    /\ result = "ok"
    /\ \A i \in 1..Len(calls) : calls[i].op \notin Monitoring

\* detached although a release command came with a release to be monitored
C8_Witness ==
  /\ flags.Detach
  /\ Succeeded("DeployImage")
  /\ ~releaseCommand.nil
  /\ release.DeploymentStrategy = "ROLLING"

\* C9: a heartbeat runs only while BuildImage is being called: each
\* StartHeartbeat is directly followed by BuildImage, and no heartbeat runs
\* at any other position of the invocation.
C9_HeartbeatScoped ==
  /\ heartbeat => pc = "BuildImage"
  /\ \A i \in 1..Len(calls) :
       calls[i].op = "StartHeartbeat" =>
         IF i = Len(calls) THEN pc = "BuildImage" /\ heartbeat
         ELSE calls[i + 1].op = "BuildImage"

\* determineImage has returned the nil-image error and the heartbeat is off
C9_Witness ==
  /\ pc = "done"
  /\ Called("StartHeartbeat")
  /\ Len(err) = 2
  /\ err[2] = "no image specified"
  /\ ~heartbeat

\* C10: a step that reports an error is the last step the invocation takes,
\* and an invocation in which a step reported an error returns an error.
C10_NoErrorSwallowed ==
  /\ \A i \in 1..Len(calls) : calls[i].err => i = Len(calls)
  /\ (pc = "done" /\ \E i \in 1..Len(calls) : calls[i].err) => result = "error"

\* the steps whose error fails a stage of the pipeline: every call of the
\* history but the path resolution made for the advisory warning only
FailsStage(c) == c.err /\ ~(c.op = "resolveDockerfilePath" /\ c.arg = "warning")

\* C11: once a step of a stage has failed, no call of a later stage is made
\* and the invocation has returned an error.
C11_ShortCircuit ==
  \A i \in 1..Len(calls) :
    FailsStage(calls[i]) => (i = Len(calls) /\ (pc = "done" => result = "error"))

\* the command line or the config of the invocation is in error: a malformed
\* --env, --build-arg or --build-secret entry, or a config that Validate
\* rejects
ConfigurationError ==
  \/ ParseKVStringsToMap(flags.Env).err
  \/ ParseKVStringsToMap(flags.BuildArg).err
  \/ ParseKVStringsToMap(flags.BuildSecret).err
  \/ Failed("Config.Validate")

\* the call c changes something remotely: an image resolved or built to be
\* published, a release created, machines rolled out
RemoteMutation(c) ==
  \/ c.op \in { "ResolveReference", "BuildImage" } /\ (flags.Push \/ ~flags.BuildOnly)
  \/ c.op \in { "DeployImage", "DeployMachinesApp" }

\* C12: an invocation with a configuration error makes no remote mutation
\* and returns an error.
C12_ConfigErrorsFatal ==
  ConfigurationError =>
    /\ \A i \in 1..Len(calls) : ~RemoteMutation(calls[i])
    /\ pc = "done" => result = "error"

\* determineImage has returned
ImageReturned ==
  \/ pc \in { "createRelease", "NewMachineDeployment", "DeployMachinesApp",
              "watch.ReleaseCommand", "GetAppReleaseNomad", "watch.Deployment" }
  \/ /\ pc = "done"
     /\ \/ Called("ResolveReference")
        \/ Called("BuildImage")
        \/ result = "panic"
        \/ err # NoError /\ Head(err) = "failed to fetch an image or build from source"

\* how often op was called
Count(op) == Cardinality({ i \in 1..Len(calls) : calls[i].op = op })

\* the image reference of the config's build section
ConfigImage == IF appConfig.Build.nil THEN "" ELSE appConfig.Build.Image

\* the source of the image follows the priority flag, config, build
ImagePriority ==
  /\ \A i \in 1..Len(calls) :
       calls[i].op = "ResolveReference" =>
         /\ calls[i].arg # ""
         /\ calls[i].arg = IF flags.Image # "" THEN flags.Image ELSE ConfigImage
  /\ \A i \in 1..Len(calls) :
       calls[i].op \in { "StartHeartbeat", "BuildImage" } =>
         (flags.Image = "" /\ ConfigImage = "")

\* C13, as stated: the priority holds and each image determination calls
\* exactly one of ResolveReference and BuildImage.
C13_ExactlyOneResolverCall ==
  /\ ImagePriority
  /\ ImageReturned => Count("ResolveReference") + Count("BuildImage") = 1

\* determineImage failed on the build options, before the build
BuildOptionsError ==
  \E i \in 1..Len(calls) :
    /\ calls[i].err
    /\ calls[i].arg \in { "build-secret", "build-arg", "build" }

\* C13, amended: the priority holds; at most one of ResolveReference and
\* BuildImage is called, and exactly one once determineImage has returned,
\* unless it failed on the build options before the build.
C13_ImageSource ==
  /\ ImagePriority
  /\ Count("ResolveReference") + Count("BuildImage") <= 1
  /\ (ImageReturned /\ ~BuildOptionsError) =>
       Count("ResolveReference") + Count("BuildImage") = 1

\* the flag's reference resolved although the config names another image
C13_Witness ==
  /\ flags.Image = "flag/img"
  /\ ConfigImage = "cfg/img"
  /\ \E i \in 1..Len(calls) :
       calls[i].op = "ResolveReference" /\ calls[i].arg = "flag/img"

\* C14, as stated: once determineAppConfig has returned, no step changes the
\* config.
C14_ConfigImmutable ==
  [][pc # "run" => appConfig' = appConfig]_vars

\* the config b is the config a but for its environment and its build args
SameButEnvAndArgs(a, b) ==
  /\ b.nil = a.nil
  /\ b.AppName = a.AppName
  /\ b.PrimaryRegion = a.PrimaryRegion
  /\ b.ConfigFilePath = a.ConfigFilePath
  /\ b.Build.nil = a.Build.nil
  /\ b.Build.Image = a.Build.Image
  /\ b.Build.Dockerfile = a.Build.Dockerfile
  /\ b.Build.Ignorefile = a.Build.Ignorefile
  /\ b.Build.Target = a.Build.Target

\* the environment b is a with the empty or missing PRIMARY_REGION set to r
PrimaryRegionInjected(a, b, r) ==
  /\ r # ""
  /\ Get(a, "PRIMARY_REGION") = ""
  /\ DOMAIN b = DOMAIN a \cup { "PRIMARY_REGION" }
  /\ \A k \in DOMAIN b : b[k] = IF k = "PRIMARY_REGION" THEN r ELSE a[k]

\* the map b is the map a, not nil, with the --build-arg values written over it
BuildArgsWritten(a, b) ==
  LET cli == ParseKVStringsToMap(flags.BuildArg).map
  IN  /\ ~a.nil
      /\ ~b.nil
      /\ DOMAIN b.kv = DOMAIN a.kv \cup DOMAIN cli
      /\ \A k \in DOMAIN b.kv : b.kv[k] = IF k \in DOMAIN cli THEN cli[k] ELSE a.kv[k]

\* C14, amended: once determineAppConfig has returned, a step changes
\* nothing of the config but these two: determineImage writes the
\* --build-arg values into the build args of the config when that map is not
\* nil, and DeployWithConfig sets PRIMARY_REGION in the environment to the
\* primary region when the image is determined, the region is set and the
\* entry is empty.
C14_ConfigFrame ==
  [][pc # "run" =>
       /\ SameButEnvAndArgs(appConfig, appConfig')
       /\ \/ appConfig'.Env = appConfig.Env
          \/ /\ pc \in { "determineImage", "BuildImage" }
             /\ PrimaryRegionInjected(appConfig.Env, appConfig'.Env,
                                      appConfig.PrimaryRegion)
       /\ \/ appConfig'.Build.Args = appConfig.Build.Args
          \/ /\ pc = "determineImage"
             /\ BuildArgsWritten(appConfig.Build.Args, appConfig'.Build.Args)
    ]_vars

\* the pipeline has set PRIMARY_REGION, which no --env flag gave, and has
\* written --build-arg A=1 over the config's A=0
C14_Witness ==
  /\ pc \in { "createRelease", "NewMachineDeployment" }
  /\ flags.Env = << >>
  /\ Get(appConfig.Env, "PRIMARY_REGION") = "ams"
  /\ ~appConfig.Build.Args.nil
  /\ Get(appConfig.Build.Args.kv, "A") = "1"

\* the build args of a config: none without a build section or without args
ConfigBuildArgs(cfg) ==
  IF cfg.nil \/ cfg.Build.nil \/ cfg.Build.Args.nil THEN EmptyMap
  ELSE cfg.Build.Args.kv

\* C15: the build args the build is started with are the union of the build
\* args the config held when determineImage was entered and of the
\* --build-arg values: a key of both has the value of the command line, a
\* key of one of them keeps its value.
C15_BuildArgsMerged ==
  [][pc = "determineImage" /\ pc' = "BuildImage" =>
       LET cfgArgs == ConfigBuildArgs(appConfig)
           cli     == ParseKVStringsToMap(flags.BuildArg).map
       IN  /\ DOMAIN opts'.BuildArgs = DOMAIN cfgArgs \cup DOMAIN cli
           /\ \A k \in DOMAIN cli : opts'.BuildArgs[k] = cli[k]
           /\ \A k \in DOMAIN cfgArgs \ DOMAIN cli : opts'.BuildArgs[k] = cfgArgs[k]
    ]_vars

\* the build starts with {A: 1, B: 2}: --build-arg A=1 over the config's
\* {A: 0, B: 2}
C15_Witness ==
  /\ pc = "BuildImage"
  /\ ConfigBuildArgs(ctxConfig) = ("A" :> "0" @@ "B" :> "2")
  /\ ParseKVStringsToMap(flags.BuildArg).map = ("A" :> "1")
  /\ opts.BuildArgs = ("A" :> "1" @@ "B" :> "2")

\* the path the build is to be given: the config's, under the directory of
\* the config file, else the flag's under the working directory unless
\* absolute, else none
ResolvedPath(cfgPath, flagPath) ==
  IF cfgPath # NoPath
  THEN LET joined == Join(Dir(appConfig.ConfigFilePath), cfgPath)
       IN  IF IsAbs(joined) THEN joined ELSE Join(WorkingDir, joined)
  ELSE IF flagPath # NoPath
  THEN IF IsAbs(flagPath) THEN flagPath ELSE Join(WorkingDir, flagPath)
  ELSE NoPath

\* C16: the build is started with the Dockerfile path, the ignore-file path
\* and the target of the config when the config declares them, the paths
\* under the config file's directory and absolute, whatever the flags say;
\* with the flag's value (a path made absolute) when the config declares
\* none; with an empty value when neither does.
C16_ConfigBeatsFlag ==
  pc = "BuildImage" =>
    /\ opts.DockerfilePath = ResolvedPath(ConfigDockerfile(appConfig), flags.Dockerfile)
    /\ opts.IgnorefilePath = ResolvedPath(ConfigIgnorefile(appConfig), flags.Ignorefile)
    /\ opts.Target = IF DockerBuildTarget(appConfig) # ""
                     THEN DockerBuildTarget(appConfig) ELSE flags.BuildTarget
    /\ opts.DockerfilePath # NoPath => IsAbs(opts.DockerfilePath)
    /\ opts.IgnorefilePath # NoPath => IsAbs(opts.IgnorefilePath)

\* the config and the command line both name a Dockerfile, an ignore file
\* and a target: the build is started with the config's
C16_Witness ==
  /\ pc = "BuildImage"
  /\ flags.Dockerfile = <<"Dockerfile.cli">>
  /\ flags.Ignorefile = <<"ignore.cli">>
  /\ flags.BuildTarget = "cli"
  /\ opts.DockerfilePath = <<"/", "app", "docker", "Dockerfile">>
  /\ opts.IgnorefilePath = <<"/", "app", "ignore.prod">>
  /\ opts.Target = "prod"

\* the stage of the pipeline a recorded call belongs to: 1 resolve config,
\* 2 fetch app summary, 3 select backend, 4 EnsureV2Config, 5 determine
\* image, 6 the backend dispatched and what follows it
Stage(c) ==
  IF c.op \in { "flaps.NewFromAppName", "appconfig.FromRemoteApp", "Config.Validate" }
       \/ (c.op = "cmdutil.ParseKVStringsToMap" /\ c.arg = "env")
  THEN 1
  ELSE IF c.op = "GetAppCompact" THEN 2
  ELSE IF c.op = "GetAppsV2DefaultOnForOrg" THEN 3
  ELSE IF c.op = "EnsureV2Config" THEN 4
  ELSE IF c.op \in Backend THEN 6
  ELSE 5

\* a call of stage s that did not fail was made before the i-th call
StageDoneBefore(s, i) ==
  \E j \in 1..(i - 1) : Stage(calls[j]) = s /\ ~calls[j].err

\* the resolver has returned no error, and an image if it was to build one
ResolverSucceeded ==
  \/ Succeeded("ResolveReference")
  \/ Succeeded("BuildImage") /\ ~img.nil

\* C17: the calls of an invocation are made stage after stage: config, app
\* summary, backend selection, EnsureV2Config for the machines backend and
\* for it only, image, backend; a call of the backend comes after the
\* resolver returned without error; the release backend runs only when
\* useMachines returned false, the machines backend only when it returned
\* true.
C17_StagesInOrder ==
  /\ \A i, j \in 1..Len(calls) : i < j => Stage(calls[i]) <= Stage(calls[j])
  /\ \A i \in 1..Len(calls) :
       /\ Stage(calls[i]) >= 2 =>
            \E j \in 1..(i - 1) : calls[j].op = "Config.Validate" /\ ~calls[j].err
       /\ Stage(calls[i]) >= 3 => StageDoneBefore(2, i)
       /\ Stage(calls[i]) >= 4 =>
            \E j \in 1..(i - 1) : calls[j].op = "GetAppsV2DefaultOnForOrg"
       /\ Stage(calls[i]) = 4 => deployToMachines
       /\ Stage(calls[i]) >= 5 /\ deployToMachines => StageDoneBefore(4, i)
       /\ Stage(calls[i]) = 6 =>
            \E j \in 1..(i - 1) :
              calls[j].op \in { "ResolveReference", "BuildImage" } /\ ~calls[j].err
       /\ calls[i].op \in { "NewMachineDeployment", "DeployMachinesApp" } =>
            deployToMachines
       /\ calls[i].op \in { "DeployImage" } \cup Monitoring => ~deployToMachines
  /\ pc \in { "NewMachineDeployment", "DeployMachinesApp" } =>
       deployToMachines /\ Succeeded("EnsureV2Config") /\ ResolverSucceeded
  /\ pc = "createRelease" \/ result = "panic" =>
       ~deployToMachines /\ ~Called("EnsureV2Config") /\ ResolverSucceeded

\* the machines backend has rolled the app out, after all the stages
C17_Witness ==
  /\ pc = "done"
  /\ result = "ok"
  /\ Succeeded("EnsureV2Config")
  /\ Succeeded("BuildImage")
  /\ Succeeded("DeployMachinesApp")

\* the evaluations of the releases a fetch returns, and of no created one
FetchedEvaluations ==
  { r.EvaluationID : r \in FetchedReleases } \ { r.EvaluationID : r \in CreatedReleases }

\* C18: the release is fetched again right after its release command
\* succeeded, and the fetched record decides.  A failed fetch is the last
\* call, and the invocation returns its error.  A fetched IMMEDIATE release
\* is the last call, and the invocation returns success.  After any other
\* fetched release the one call that follows is watch.Deployment on the
\* evaluation of the fetched release, and the invocation returns what the
\* watcher returned.
C18_RefetchedReleaseDecides ==
  /\ \A i \in 1..Len(calls) :
       calls[i].op = "GetAppReleaseNomad" =>
         /\ i > 1
         /\ calls[i - 1].op = "watch.ReleaseCommand"
         /\ ~calls[i - 1].err
         /\ Count("GetAppReleaseNomad") = 1
         /\ calls[i].err =>
              /\ i = Len(calls)
              /\ pc = "done"
              /\ result = "error"
              /\ err = Error("GetAppReleaseNomad")
         /\ ~calls[i].err /\ calls[i].ret = "IMMEDIATE" =>
              /\ i = Len(calls)
              /\ pc = "done"
              /\ result = "ok"
              /\ err = NoError
         /\ ~calls[i].err /\ calls[i].ret # "IMMEDIATE" =>
              \/ /\ i = Len(calls)
                 /\ pc = "watch.Deployment"
              \/ /\ i + 1 = Len(calls)
                 /\ calls[i + 1].op = "watch.Deployment"
                 /\ calls[i + 1].arg \in FetchedEvaluations
                 /\ pc = "done"
                 /\ result = IF calls[i + 1].err THEN "error" ELSE "ok"
                 /\ err = IF calls[i + 1].err THEN Error("watch.Deployment") ELSE NoError
  /\ calls # << >> /\ Last(calls).op = "watch.ReleaseCommand" /\ ~Last(calls).err =>
       pc = "GetAppReleaseNomad"

\* a release created IMMEDIATE was fetched again as ROLLING after its
\* release command, its deployment was watched, and the watcher succeeded
C18_Witness ==
  /\ pc = "done"
  /\ result = "ok"
  /\ \E i \in 1..Len(calls) :
       calls[i].op = "DeployImage" /\ calls[i].ret = "IMMEDIATE"
  /\ \E i \in 1..Len(calls) :
       calls[i].op = "GetAppReleaseNomad" /\ calls[i].ret = "ROLLING"
  /\ Last(calls).op = "watch.Deployment"
  /\ Last(calls).arg \in FetchedEvaluations

\* the command lines and configs of the invocations checked for termination
FairFlags == { f \in BackendFlags : ~f.ForceYes }
FairConfigs == { NilConfig } \cup { c \in Configs : c.PrimaryRegion = "ams" /\ ~c.Build.nil }

FairInit ==
  /\ Init
  /\ flags \in FairFlags
  /\ ctxConfig \in FairConfigs

\* every step of the pipeline is a call that returns: an invocation that can
\* take a step takes one
FairSpec == FairInit /\ [][Next]_vars /\ WF_vars(Next)

\* no external call is made a second time with the same argument
NoCallRepeated ==
  \A i, j \in 1..Len(calls) :
    i < j => ~(calls[i].op = calls[j].op /\ calls[i].arg = calls[j].arg)

\* the invocation ends, be it with a result or in a panic
Ends == <>(pc = "done")

\* C19: no call of the pipeline is repeated, and every invocation whose
\* calls all return ends with success or with an error.
C19_TerminalResult ==
  /\ []NoCallRepeated
  /\ <>(pc = "done" /\ result \in { "ok", "error" })

----------------------------------------------------------------------------
(* The release script, src/unnamed/part_000 *)

\* the deploy command's variables, which the script leaves alone
deployVars == <<pc, flags, ctxConfig, appConfig, appCompact, appsV2DefaultOn,
                deployToMachines, opts, img,
                release, releaseCommand, heartbeat, calls, result, err>>

\* what `read -n 1 -r' leaves in REPLY: at most one character, none when
\* the user presses Enter
Replies == { << >>, <<"y">>, <<"Y">>, <<"n">> }
Branches == { "main", "master", "feature" }

\* [[ $REPLY =~ ^[^Yy]$ ]], lines 28 and 41: one character, not Y nor y
matchesNotYy(REPLY) == Len(REPLY) = 1 /\ REPLY[1] \notin { "Y", "y" }

\* [[ $REPLY =~ ^[Yy]$ ]], line 76
matchesYy(REPLY) == Len(REPLY) = 1 /\ REPLY[1] \in { "Y", "y" }

\* the script ends with the given exit status
Exit(s, status) == [s EXCEPT !.pc = "exit", !.status = status]

\* the prompt shown and the reply read
Prompted(s, prompt, REPLY) ==
  [s EXCEPT !.prompts = Append(@, [prompt |-> prompt, REPLY |-> REPLY])]

\* lines 16-22: the working tree must be clean, the branch neither ahead of
\* nor behind its remote
CheckRepo ==
  /\ script.pc = "check"
  /\ script' = IF script.dirty \/ script.aheadBehind THEN Exit(script, 1)
               ELSE [script EXCEPT !.pc = "branch"]
  /\ UNCHANGED deployVars

\* lines 24-25 and 32
CheckBranch ==
  /\ script.pc = "branch"
  /\ script' = IF script.BRANCH # "master" /\ script.BRANCH # "main"
               THEN [script EXCEPT !.pc = "read.branch"]
               ELSE [script EXCEPT !.pc = "fetch"]
  /\ UNCHANGED deployVars

\* lines 26-31: the prompt of a branch that is not the main one.  read fails
\* at the end of the input, and the script exits (set -e).
ReadBranch ==
  /\ script.pc = "read.branch"
  /\ \/ script' = Exit(script, 1)
     \/ \E REPLY \in Replies :
          script' = IF matchesNotYy(REPLY)
                    THEN Exit(Prompted(script, "branch", REPLY), 1)
                    ELSE [Prompted(script, "branch", REPLY) EXCEPT !.pc = "version"]
  /\ UNCHANGED deployVars

\* lines 34-35: git fetch, which may fail (set -e), and the comparison of
\* HEAD with its upstream
GitFetch ==
  /\ script.pc = "fetch"
  /\ \/ script' = Exit(script, 1)
     \/ script' = [script EXCEPT !.pc = "read.upstream"]
     \/ script' = [script EXCEPT !.pc = "version"]
  /\ UNCHANGED deployVars

\* lines 36-44: the prompt when upstream has other commits
ReadUpstream ==
  /\ script.pc = "read.upstream"
  /\ \/ script' = Exit(script, 1)
     \/ \E REPLY \in Replies :
          script' = IF matchesNotYy(REPLY)
                    THEN Exit(Prompted(script, "upstream", REPLY), 1)
                    ELSE [Prompted(script, "upstream", REPLY) EXCEPT !.pc = "version"]
  /\ UNCHANGED deployVars

\* lines 48-72: the new version is computed by scripts/version.sh and
\* scripts/semver, which may fail (set -e)
NewVersion ==
  /\ script.pc = "version"
  /\ \/ script' = Exit(script, 1)
     \/ script' = [script EXCEPT !.pc = "read.sure"]
  /\ UNCHANGED deployVars

\* lines 74-77 and 80: the last prompt
ReadSure ==
  /\ script.pc = "read.sure"
  /\ \/ script' = Exit(script, 1)
     \/ \E REPLY \in Replies :
          script' = IF matchesYy(REPLY)
                    THEN [Prompted(script, "sure", REPLY) EXCEPT !.pc = "tag"]
                    ELSE Exit(Prompted(script, "sure", REPLY), 0)
  /\ UNCHANGED deployVars

\* line 78, git tag: when it fails the push is skipped, and "done" echoed
GitTag ==
  /\ script.pc = "tag"
  /\ \/ script' = Exit(script, 0)
     \/ script' = [script EXCEPT !.pc = "push", !.tagged = TRUE]
  /\ UNCHANGED deployVars

\* lines 78-79, git push: its failure ends the script (set -e)
GitPush ==
  /\ script.pc = "push"
  /\ \/ script' = Exit(script, 1)
     \/ script' = Exit([script EXCEPT !.pushed = TRUE], 0)
  /\ UNCHANGED deployVars

\* the script is started in some repository, no deploy running
ReleaseInit ==
  /\ script \in [pc : {"check"}, dirty : BOOLEAN, aheadBehind : BOOLEAN,
                 BRANCH : Branches, prompts : { << >> }, tagged : {FALSE},
                 pushed : {FALSE}, status : {0}]
  /\ pc = "none"
  /\ flags \in { f \in BackendFlags :
                   /\ ~f.ForceNomad /\ ~f.ForceMachines /\ ~f.ForceYes
                   /\ ~f.BuildOnly /\ ~f.Detach /\ f.Image = "" }
  /\ ctxConfig = NilConfig
  /\ appConfig = NilConfig
  /\ appCompact = NilApp
  /\ appsV2DefaultOn = FALSE
  /\ deployToMachines = FALSE
  /\ opts = NoOptions
  /\ img = NilImage
  /\ release = NilRelease
  /\ releaseCommand = NilReleaseCommand
  /\ heartbeat = FALSE
  /\ calls = << >>
  /\ result = "running"
  /\ err = NoError

ReleaseNext ==
  \/ CheckRepo
  \/ CheckBranch
  \/ ReadBranch
  \/ GitFetch
  \/ ReadUpstream
  \/ NewVersion
  \/ ReadSure
  \/ GitTag
  \/ GitPush

ReleaseSpec == ReleaseInit /\ [][ReleaseNext]_vars

\* C20: the script tags only in a clean working tree, on a branch neither
\* ahead of nor behind its remote, and after every prompt it showed was
\* answered Y or y.
C20_TagOnlyIfAllConfirmed ==
  script.tagged =>
    /\ ~script.dirty
    /\ ~script.aheadBehind
    /\ \A i \in 1..Len(script.prompts) : matchesYy(script.prompts[i].REPLY)

====
